---- MODULE Spec2Model ----
(***************************************************************************)
(* Model of gss_validate.ipynb: the Stata dictionary parser (ReadStataDct), *)
(* the fixed-width reader (FixedWidthVariables), the sentinel cleaning      *)
(* (replace_invalid) and the weighted resampling driven by the notebook.    *)
(*                                                                          *)
(* Text is modelled as sequences of one-character strings, so that          *)
(* prefix tests, lower-casing, slicing and stripping are computed.          *)
(***************************************************************************)
EXTENDS Integers, Sequences, FiniteSets, TLC

VARIABLES
    pc,          \* position in the notebook's pipeline
    line,        \* ReadStataDct: the loop variable, the line read last
    var_info,    \* ReadStataDct: list of (start, type, name) collected so far
    variables,   \* the variables frame: var_info plus the 'end' column
    index_base,  \* the index_base the FixedWidthVariables was constructed with
    colspecs,    \* FixedWidthVariables.colspecs: list of <<start, end>>
    names,       \* FixedWidthVariables.names
    fwf,         \* the data file handed to ReadFixedWidth (its lines)
    df,          \* the frame ReadFixedWidth returned: one list of cells per row
    err,         \* the exception that ended the pipeline, "none" if none
    gss,         \* the frame replace_invalid works on: a list of rows
    ncalls,      \* how many times the replace_invalid cell has been run
    subset,      \* the frame handed to the resampler: a list of rows
    rng,         \* numpy's global random state: the seed it was set from
                 \* and how many draws it has given since
    tape,        \* for each seed, the draws its stream has given so far
    sample,      \* the frame the resampler returned last
    runs,        \* the runs of the resampling cell so far: seed, input, output
    hdf5         \* the file gss.hdf5: whether it was written, and its table

dctVars == <<line, var_info, variables, index_base, colspecs, names, fwf, df>>
gssVars == <<gss, ncalls>>
rsVars == <<subset, rng, tape, sample, runs, hdf5>>

vars == <<pc, err, dctVars, gssVars, rsVars>>

----------------------------------------------------------------------------
(* Bounds of the model *)

MaxCols == 3
MaxStart == 3
MaxLineLen == 3
MaxDataLines == 2
MaxGssRows == 2
MaxCalls == 2
MaxRows == 2
MaxRuns == 2

----------------------------------------------------------------------------
(* numpy's global random state *)

\* the seed of the notebook, np.random.seed(19)
NotebookSeed == 19

\* the seeds a stream can start from: the notebook's, and 0 for the state
\* numpy starts in when no seed was set
Seeds == {0, NotebookSeed}

\* the random state before any seed is set
Unseeded == [seed |-> 0, pos |-> 0]

\* no stream has given a draw yet
\* gss.hdf5 before the notebook has written it
NoFile == [written |-> FALSE, table |-> <<>>]

\* the frame has the derived column wtsample
Calibrated(tbl) == \E i \in 1..Len(tbl) : "wtsample" \in DOMAIN tbl[i]

NoDraws == [s \in Seeds |-> <<>>]

\* the seeding left out: the random state carries on from where it was
SeedRng_Skipped(state, s) == state

\* np.random.seed(s): the stream of seed s, from its beginning
SeedRng(state, s) == [seed |-> s, pos |-> 0]

----------------------------------------------------------------------------
(* Text helpers *)

\* str.startswith
StartsWith(tok, prefix) ==
    /\ Len(tok) >= Len(prefix)
    /\ SubSeq(tok, 1, Len(prefix)) = prefix

\* str.lower on one character (the characters the model's names use)
LowerChar(c) ==
    CASE c = "I" -> "i"
      [] c = "D" -> "d"
      [] OTHER -> c

\* str.lower
Lower(s) == [i \in 1..Len(s) |-> LowerChar(s[i])]

----------------------------------------------------------------------------
(* ReadStataDct *)

tok_byte == <<"b","y","t","e">>
tok_int == <<"i","n","t">>
tok_long == <<"l","o","n","g">>
tok_float == <<"f","l","o","a","t">>
tok_double == <<"d","o","u","b","l","e">>
tok_numeric == <<"n","u","m","e","r","i","c">>
tok_str == <<"s","t","r">>
tok_str12 == <<"s","t","r","1","2">>
tok_string == <<"s","t","r","i","n","g">>
tok_st == <<"s","t">>
tok_Int == <<"I","n","t">>
tok_short == <<"s","h","o","r","t">>

\* type tokens a dictionary line may carry (known ones and unknown ones)
TypeTokens ==
    {tok_byte, tok_int, tok_long, tok_float, tok_double, tok_numeric,
     tok_str, tok_str12, tok_string, tok_st, tok_Int, tok_short}

\* type_map = dict(byte=int, int=int, long=int, float=float, double=float, numeric=float)
type_map ==
    [tok \in {tok_byte, tok_int, tok_long, tok_float, tok_double, tok_numeric} |->
        IF tok \in {tok_byte, tok_int, tok_long} THEN "int" ELSE "float"]

\* variable names a dictionary line may carry, as written in the file
RawNames == {<<"I","D">>, <<"a","g","e">>}

\* A line of the dictionary file.  marker: does re.search find _column(...)
\* in it; start: the integer inside the marker; vtype, name: t[1], t[2] of
\* line.split().
CommentLine == [marker |-> FALSE, start |-> 0, vtype |-> <<>>, name |-> <<>>]

ColumnLines ==
    [marker : {TRUE}, start : 1..MaxStart, vtype : TypeTokens, name : RawNames]

DctLines == {CommentLine} \cup ColumnLines

\* VType with the prefix test replaced by an equality test (vtype == 'str')
VType_ExactStr(vtype) ==
    IF vtype = tok_str THEN "str"
    ELSE IF vtype \in DOMAIN type_map THEN type_map[vtype]
    ELSE "KeyError"

\* if vtype.startswith('str'): vtype = str  else: vtype = type_map[vtype]
\* "KeyError" stands for the exception the dict lookup raises.
VType(vtype) ==
    IF StartsWith(vtype, tok_str) THEN "str"
    ELSE IF vtype \in DOMAIN type_map THEN type_map[vtype]
    ELSE "KeyError"

\* the tuple appended to var_info for a line that holds the marker
VarInfo(l) ==
    [start |-> l.start, type |-> VType(l.vtype), name |-> Lower(l.name)]

\* ShiftEnd shifting the wrong way (shift(1)): each end is the previous start
ShiftEnd_WrongWay(info) ==
    [i \in 1..Len(info) |->
        [start |-> info[i].start, type |-> info[i].type, name |-> info[i].name,
         end |-> IF i > 1 THEN info[i-1].start ELSE 0]]

\* variables['end'] = variables.start.shift(-1); variables.loc[len-1, 'end'] = 0
ShiftEnd(info) ==
    [i \in 1..Len(info) |->
        [start |-> info[i].start, type |-> info[i].type, name |-> info[i].name,
         end |-> IF i < Len(info) THEN info[i+1].start ELSE 0]]

\* ColSpecs subtracting index_base from the start column only
ColSpecs_StartOnly(vs, ib) == [i \in 1..Len(vs) |-> <<vs[i].start - ib, vs[i].end>>]

\* FixedWidthVariables.__init__: colspecs = variables[['start', 'end']] - index_base
ColSpecs(vs, ib) == [i \in 1..Len(vs) |-> <<vs[i].start - ib, vs[i].end - ib>>]

\* FixedWidthVariables.__init__: names = variables['name']
Names(vs) == [i \in 1..Len(vs) |-> vs[i].name]

Init ==
    /\ pc = "parsing"
    /\ line = CommentLine
    /\ var_info = <<>>
    /\ variables = <<>>
    /\ index_base = 1
    /\ colspecs = <<>>
    /\ names = <<>>
    /\ fwf = <<>>
    /\ df = <<>>
    /\ err = "none"
    /\ gss = <<>>
    /\ ncalls = 0
    /\ subset = <<>>
    /\ rng = Unseeded
    /\ tape = NoDraws
    /\ sample = <<>>
    /\ runs = <<>>
    /\ hdf5 = NoFile

\* one iteration of "for line in f" (lines 118-131)
ReadStataDctLine ==
    /\ pc = "parsing"
    /\ \E l \in DctLines :
        /\ l.marker => Len(var_info) < MaxCols
        /\ line' = l
        /\ IF ~l.marker
           THEN UNCHANGED <<pc, var_info, err>>
           ELSE IF VType(l.vtype) = "KeyError"
           THEN /\ pc' = "failed"
                /\ err' = "KeyError"
                /\ UNCHANGED var_info
           ELSE /\ var_info' = Append(var_info, VarInfo(l))
                /\ UNCHANGED <<pc, err>>
    /\ UNCHANGED <<variables, index_base, colspecs, names, fwf, df, gssVars, rsVars>>

\* end of file: lines 133-141.  With no column line the frame is empty,
\* .loc[-1, 'end'] = 0 adds a row whose start is NaN, and astype(np.int)
\* raises ValueError.
ReadStataDctReturn ==
    /\ pc = "parsing"
    /\ IF var_info = <<>>
       THEN /\ pc' = "failed"
            /\ err' = "ValueError"
            /\ UNCHANGED <<variables, index_base, colspecs, names>>
       ELSE /\ pc' = "dct"
            /\ variables' = ShiftEnd(var_info)
            /\ index_base' = 1
            /\ colspecs' = ColSpecs(ShiftEnd(var_info), 1)
            /\ names' = Names(ShiftEnd(var_info))
            /\ UNCHANGED err
    /\ UNCHANGED <<line, var_info, fwf, df, gssVars, rsVars>>

\* a caller constructs FixedWidthVariables(variables, index_base) itself
\* from a variables frame (index_base defaults to 0)
NewFixedWidthVariables ==
    /\ pc = "dct"
    /\ \E ib \in {0, 1} :
        /\ ib # index_base
        /\ index_base' = ib
        /\ colspecs' = ColSpecs(variables, ib)
        /\ names' = Names(variables)
    /\ UNCHANGED <<pc, line, var_info, variables, fwf, df, err, gssVars, rsVars>>

NextDct == ReadStataDctLine \/ ReadStataDctReturn \/ NewFixedWidthVariables

SpecDct == Init /\ [][NextDct]_vars

----------------------------------------------------------------------------
(* FixedWidthVariables.ReadFixedWidth: pd.read_fwf(filename, colspecs, names) *)

Max(S) == CHOOSE x \in S : \A y \in S : y <= x

\* Python's s[a:b] on a sequence, 0-based and half-open; a negative index
\* counts from the end, an index past the end is clamped
PySlice(s, a, b) ==
    LET n == Len(s)
        clamp(k) == IF k < 0 THEN (IF k + n < 0 THEN 0 ELSE k + n)
                    ELSE (IF k > n THEN n ELSE k)
        lo == clamp(a)
        hi == clamp(b)
    IN  IF lo < hi THEN SubSeq(s, lo + 1, hi) ELSE <<>>

\* the characters read_fwf strips from both ends of a field
Delimiters == {"\n", "\r", "\t", " "}

RECURSIVE LStrip(_)
LStrip(s) == IF s # <<>> /\ Head(s) \in Delimiters THEN LStrip(Tail(s)) ELSE s

RECURSIVE RStrip(_)
RStrip(s) ==
    IF s # <<>> /\ s[Len(s)] \in Delimiters
    THEN RStrip(SubSeq(s, 1, Len(s) - 1))
    ELSE s

\* str.strip(delimiter)
Strip(s) == LStrip(RStrip(s))

\* the character the model writes at position i of a data line
Letters == <<"a", "b", "c", "d", "e", "f", "g", "h">>

\* the text of a data line: at each position its letter or a blank
LineTexts ==
    UNION {{t \in [1..n -> {"a", "b", "c", "d", "e", "f", "g", "h", " "}] :
                \A i \in 1..n : t[i] \in {Letters[i], " "}} : n \in 0..MaxLineLen}

\* a line of the data file: its text, and whether a newline ends it
DataLines == [text : LineTexts, nl : BOOLEAN]

\* a data file: every line but the last ends with a newline
DataFiles ==
    UNION {{f \in [1..n -> DataLines] : \A i \in 1..(n - 1) : f[i].nl} :
                n \in 0..MaxDataLines}

\* the line as iterating the file handle yields it, newline included
RawLine(l) == IF l.nl THEN Append(l.text, "\n") ELSE l.text

\* one field: line[fromm:to].strip(self.delimiter)
Field(raw, spec) == Strip(PySlice(raw, spec[1], spec[2]))

\* the fields of one line, one per colspec
Fields(l, specs) == [i \in 1..Len(specs) |-> Field(RawLine(l), specs[i])]

\* skip_blank_lines: pandas before 1.2 drops a line only when it has a
\* single field and that field is blank; pandas 1.2 and later drops every
\* line whose fields are all blank
Dropped(cells, rule) ==
    /\ \A i \in 1..Len(cells) : cells[i] = <<>>
    /\ rule = "all_fields" \/ Len(cells) = 1

RECURSIVE Rows(_, _, _)
Rows(file, specs, rule) ==
    IF file = <<>> THEN <<>>
    ELSE LET cells == Fields(Head(file), specs)
             rest == Rows(Tail(file), specs, rule)
         IN  IF Dropped(cells, rule) THEN rest ELSE <<cells>> \o rest

\* the column names of the model's layouts
LayoutName(i) == <<"v", ToString(i)>>

\* var_info of a dictionary file whose column lines have increasing starts
Layouts ==
    UNION {{v \in [1..n -> [start : 1..MaxStart, type : {"str"},
                            name : {LayoutName(i) : i \in 1..MaxCols}]] :
                /\ \A i \in 1..n : v[i].name = LayoutName(i)
                /\ \A i \in 1..(n - 1) : v[i].start < v[i+1].start} :
           n \in 1..MaxCols}

\* the state ReadStataDct leaves for a dictionary file with those columns
InitRead ==
    /\ pc = "dct"
    /\ line = CommentLine
    /\ var_info \in Layouts
    /\ variables = ShiftEnd(var_info)
    /\ index_base = 1
    /\ colspecs = ColSpecs(ShiftEnd(var_info), 1)
    /\ names = Names(ShiftEnd(var_info))
    /\ fwf = <<>>
    /\ df = <<>>
    /\ err = "none"
    /\ gss = <<>>
    /\ ncalls = 0
    /\ subset = <<>>
    /\ rng = Unseeded
    /\ tape = NoDraws
    /\ sample = <<>>
    /\ runs = <<>>
    /\ hdf5 = NoFile

ReadFixedWidth ==
    /\ pc = "dct"
    /\ \E file \in DataFiles, rule \in {"one_field", "all_fields"} :
        /\ fwf' = file
        /\ df' = Rows(file, colspecs, rule)
    /\ pc' = "read"
    /\ UNCHANGED <<line, var_info, variables, index_base, colspecs, names, err, gssVars, rsVars>>

NextRead == ReadFixedWidth

SpecRead == InitRead /\ [][NextRead]_vars

----------------------------------------------------------------------------
(* replace_invalid *)

\* np.nan, the missing marker (no value of any column is negative)
NaN == -1

\* Series.replace(to_replace, np.nan) on one cell
Replace(v, to_replace) == IF v \in to_replace THEN NaN ELSE v

\* replace_invalid on one row, with 89 listed among the codes of age
replace_invalid_row_Age89(r) ==
    [r EXCEPT !.realinc = Replace(@, {0}),
              !.educ = Replace(@, {98, 99}),
              !.age = Replace(@, {89, 98, 99}),
              !.cohort = Replace(@, {9999}),
              !.adults = Replace(@, {9})]

\* replace_invalid on one row, with age replaced value by value
\* (replace([98, 99], [99, np.nan])): 98 becomes 99 and 99 becomes NaN
replace_invalid_row_Chained(r) ==
    [r EXCEPT !.realinc = Replace(@, {0}),
              !.educ = Replace(@, {98, 99}),
              !.age = IF @ = 98 THEN 99 ELSE Replace(@, {99}),
              !.cohort = Replace(@, {9999}),
              !.adults = Replace(@, {9})]

\* the five replace calls of replace_invalid, on one row
replace_invalid_row(r) ==
    [r EXCEPT !.realinc = Replace(@, {0}),
              !.educ = Replace(@, {98, 99}),
              !.age = Replace(@, {98, 99}),
              !.cohort = Replace(@, {9999}),
              !.adults = Replace(@, {9})]

\* replace_invalid(df): every column is replaced in place, row by row
replace_invalid(tbl) == [i \in 1..Len(tbl) |-> replace_invalid_row(tbl[i])]

\* the columns of a row of gss the model keeps: the five that
\* replace_invalid touches and childs, which it does not
GssColumns == {"realinc", "educ", "age", "cohort", "adults", "childs"}

\* rows as read from the extract: codes and ordinary values
GssRows ==
    [realinc : {0, 500}, educ : {12, 98, 99}, age : {89, 98, 99},
     cohort : {1950, 9999}, adults : {2, 9}, childs : {0, 9}]

\* gss = read_gss('gss_eda')
InitClean ==
    /\ pc = "read"
    /\ err = "none"
    /\ line = CommentLine
    /\ var_info = <<>>
    /\ variables = <<>>
    /\ index_base = 1
    /\ colspecs = <<>>
    /\ names = <<>>
    /\ fwf = <<>>
    /\ df = <<>>
    /\ \E n \in 0..MaxGssRows : gss \in [1..n -> GssRows]
    /\ ncalls = 0
    /\ subset = <<>>
    /\ rng = Unseeded
    /\ tape = NoDraws
    /\ sample = <<>>
    /\ runs = <<>>
    /\ hdf5 = NoFile

\* the cell "replace_invalid(gss)", which may be run again
ReplaceInvalid ==
    /\ pc = "read"
    /\ ncalls < MaxCalls
    /\ gss' = replace_invalid(gss)
    /\ ncalls' = ncalls + 1
    /\ UNCHANGED <<pc, err, dctVars, rsVars>>

NextClean == ReplaceInvalid

SpecClean == InitClean /\ [][NextClean]_vars

----------------------------------------------------------------------------
(* utils.resample_by_year(subset, 'wtssall'): the weighted resampler *)

\* a draw of the random stream is one of RandRange equally likely values;
\* RandRange is the largest total weight a stratum of the model can have
RandRange == 2 * MaxRows

\* the rows of the frame handed to the resampler: the stratum column year,
\* the weight column wtssall and age, which tells rows apart
SubsetRows == [year : {1972, 1973}, age : {30, 40}, wtssall : {0, 1, 2}]

\* the values of a set of years in ascending order
RECURSIVE Ascending(_)
Ascending(S) ==
    IF S = {} THEN <<>>
    ELSE LET lo == CHOOSE x \in S : \A y \in S : x <= y
         IN  <<lo>> \o Ascending(S \ {lo})

\* the stratum values in ascending order (a group-by that sorts its keys)
StrataOrder_Sorted(tbl) == Ascending({tbl[i].year : i \in 1..Len(tbl)})

\* the stratum values of a frame, in the order they first appear
RECURSIVE StrataOrder(_)
StrataOrder(tbl) ==
    IF tbl = <<>> THEN <<>>
    ELSE LET y == Head(tbl).year
             IsOther(r) == r.year # y
         IN  <<y>> \o StrataOrder(SelectSeq(Tail(tbl), IsOther))

\* step 1: the rows of one stratum, in input order
StratumRows(tbl, y) ==
    LET InStratum(r) == r.year = y IN SelectSeq(tbl, InStratum)

\* the total weight of the first k rows
RECURSIVE CumWeight(_, _)
CumWeight(rows, k) == IF k = 0 THEN 0 ELSE CumWeight(rows, k - 1) + rows[k].wtssall

TotalWeight(rows) == CumWeight(rows, Len(rows))

\* step 2: the stratum cannot be normalized
Degenerate(rows) == rows = <<>> \/ TotalWeight(rows) = 0

\* step 3, one draw: the row whose share of the normalized weights holds
\* the draw u / RandRange
Pick(rows, u) ==
    CHOOSE i \in 1..Len(rows) :
        /\ u * TotalWeight(rows) < CumWeight(rows, i) * RandRange
        /\ \A j \in 1..(i - 1) :
              ~(u * TotalWeight(rows) < CumWeight(rows, j) * RandRange)

\* one stratum drawn one row short of its row count
ResampleStratum_OneShort(rows, us) ==
    [j \in 1..(Len(rows) - 1) |-> rows[Pick(rows, us[j])]]

\* one stratum drawn once more than its row count (the first draw is used
\* again for the extra row)
ResampleStratum_OneMore(rows, us) ==
    [j \in 1..(Len(rows) + 1) |->
        rows[Pick(rows, us[IF j > Len(rows) THEN 1 ELSE j])]]

\* steps 3 and 4: as many draws as the stratum has rows, with replacement
ResampleStratum(rows, us) == [j \in 1..Len(rows) |-> rows[Pick(rows, us[j])]]

\* the strata's contributions concatenated in stratum order, the draws
\* consumed stratum by stratum, row by row
RECURSIVE Concatenate(_, _, _)
Concatenate(tbl, strata, us) ==
    IF strata = <<>> THEN <<>>
    ELSE LET rows == StratumRows(tbl, Head(strata))
             n == Len(rows)
         IN  ResampleStratum(rows, SubSeq(us, 1, n))
                 \o Concatenate(tbl, Tail(strata), SubSeq(us, n + 1, Len(us)))

\* some stratum of the frame is degenerate
HasDegenerate(tbl) ==
    \E k \in 1..Len(StrataOrder(tbl)) :
        Degenerate(StratumRows(tbl, StrataOrder(tbl)[k]))

\* the draws consumed before the first degenerate stratum is met (all of
\* them when there is none)
RECURSIVE DrawsNeeded(_, _)
DrawsNeeded(tbl, strata) ==
    IF strata = <<>> THEN 0
    ELSE LET rows == StratumRows(tbl, Head(strata))
         IN  IF Degenerate(rows) THEN 0
             ELSE Len(rows) + DrawsNeeded(tbl, Tail(strata))

\* the contributions of the strata that come before the first degenerate one
RECURSIVE ConcatenateUntilDegenerate(_, _, _)
ConcatenateUntilDegenerate(tbl, strata, us) ==
    IF strata = <<>> THEN <<>>
    ELSE LET rows == StratumRows(tbl, Head(strata))
             n == Len(rows)
         IN  IF Degenerate(rows) THEN <<>>
             ELSE ResampleStratum(rows, SubSeq(us, 1, n))
                    \o ConcatenateUntilDegenerate(tbl, Tail(strata),
                                                  SubSeq(us, n + 1, Len(us)))

\* a degenerate stratum is not reported: the call returns what the strata
\* before it contributed
Outcome_NoError(tbl, us) ==
    [ok |-> TRUE, output |-> ConcatenateUntilDegenerate(tbl, StrataOrder(tbl), us)]

\* what the call does with the draws us: it raises DegenerateStratumError
\* (ok is FALSE, no frame) or returns the concatenated frame
Outcome(tbl, us) ==
    IF HasDegenerate(tbl)
    THEN [ok |-> FALSE, output |-> <<>>]
    ELSE [ok |-> TRUE, output |-> Concatenate(tbl, StrataOrder(tbl), us)]

\* subset = gss[variables]
InitResample ==
    /\ pc = "subset"
    /\ err = "none"
    /\ line = CommentLine
    /\ var_info = <<>>
    /\ variables = <<>>
    /\ index_base = 1
    /\ colspecs = <<>>
    /\ names = <<>>
    /\ fwf = <<>>
    /\ df = <<>>
    /\ gss = <<>>
    /\ ncalls = 0
    /\ \E n \in 0..MaxRows : subset \in [1..n -> SubsetRows]
    /\ rng = Unseeded
    /\ tape = NoDraws
    /\ sample = <<>>
    /\ runs = <<>>
    /\ hdf5 = NoFile

\* the cell "np.random.seed(19); sample = utils.resample_by_year(subset,
\* 'wtssall')", which may be run again.  The draws a stream has already
\* given are given again from the tape; the others are any values.
ResampleByYear ==
    /\ pc \in {"subset", "sampled"}
    /\ Len(runs) < MaxRuns
    /\ LET state == SeedRng(rng, NotebookSeed)
           need == DrawsNeeded(subset, StrataOrder(subset))
           given == tape[state.seed]
           last == IF Len(given) < state.pos + need THEN Len(given)
                   ELSE state.pos + need
           replayed == SubSeq(given, state.pos + 1, last)
       IN  \E fresh \in [1..(need - Len(replayed)) -> 0..(RandRange - 1)] :
           LET us == replayed \o fresh
               out == Outcome(subset, us)
           IN
             /\ tape' = [tape EXCEPT ![state.seed] =
                            IF Len(@) >= state.pos + need THEN @
                            ELSE SubSeq(@, 1, state.pos) \o us]
             /\ rng' = [state EXCEPT !.pos = @ + need]
             /\ runs' = Append(runs, [seed |-> NotebookSeed, input |-> subset,
                                      ok |-> out.ok, output |-> out.output,
                                      calibrated |-> Calibrated(gss)])
             /\ IF out.ok
                THEN /\ pc' = "sampled"
                     /\ sample' = out.output
                     /\ UNCHANGED err
                ELSE /\ pc' = "failed"
                     /\ err' = "DegenerateStratumError"
                     /\ UNCHANGED sample
    /\ UNCHANGED <<subset, hdf5, dctVars, gssVars>>

NextResample == ResampleByYear

SpecResample == InitResample /\ [][NextResample]_vars

----------------------------------------------------------------------------
(* From the loaded frame to gss.hdf5: the weight calibration cell, the
   subset selection, the resampling cell and the cell that persists the
   sample.  Weights are whole numbers; the derived column wtsample holds
   thousandths, so that the factor 1.145 is exact. *)

\* the factor of "gss.loc[gss.sex==1, 'wtsample'] *= 1.145", in thousandths
CalibrationFactor == 1145

\* a weight expressed in thousandths
Thousandths(w) == w * 1000

\* a thousandths value multiplied by a factor given in thousandths
Scaled(v, factor) == (v * factor) \div 1000

\* tbl[c] = v for one row: the column is added when the row has none
SetColumn(r, c, v) == [f \in (DOMAIN r) \cup {c} |-> IF f = c THEN v ELSE r[f]]

\* the factor applied to the column wtssall itself, which then holds
\* thousandths
CalibrateFrame_InPlace(tbl) ==
    [i \in 1..Len(tbl) |->
        LET copied == SetColumn(tbl[i], "wtssall", Thousandths(tbl[i].wtssall))
        IN  IF tbl[i].sex = 1
            THEN SetColumn(copied, "wtssall",
                           Scaled(copied.wtssall, CalibrationFactor))
            ELSE copied]

\* gss['wtsample'] = gss['wtssall']
\* gss.loc[gss.sex==1, 'wtsample'] *= 1.145
CalibrateFrame(tbl) ==
    [i \in 1..Len(tbl) |->
        LET copied == SetColumn(tbl[i], "wtsample", Thousandths(tbl[i].wtssall))
        IN  IF tbl[i].sex = 1
            THEN SetColumn(copied, "wtsample",
                           Scaled(copied.wtsample, CalibrationFactor))
            ELSE copied]

\* variables = ['year', 'age', 'cohort', 'sex', 'race', 'educ', 'realinc',
\* 'adults', 'wtssall']: those of the nine columns the model's rows have
SubsetColumns == {"year", "sex", "wtssall"}

\* tbl[cols]: a new frame of the columns cols
SelectColumns(tbl, cols) == [i \in 1..Len(tbl) |-> [f \in cols |-> tbl[i][f]]]

\* the rows of the loaded frame: one survey year, sex and a positive weight
LoadedRows == [year : {1972}, sex : {1, 2}, wtssall : {1, 2}]

\* gss = read_gss('gss_eda'), cleaned; nothing else has run
InitCalib ==
    /\ pc = "read"
    /\ err = "none"
    /\ line = CommentLine
    /\ var_info = <<>>
    /\ variables = <<>>
    /\ index_base = 1
    /\ colspecs = <<>>
    /\ names = <<>>
    /\ fwf = <<>>
    /\ df = <<>>
    /\ \E n \in 0..MaxGssRows : gss \in [1..n -> LoadedRows]
    /\ ncalls = 0
    /\ subset = <<>>
    /\ rng = Unseeded
    /\ tape = NoDraws
    /\ sample = <<>>
    /\ runs = <<>>
    /\ hdf5 = NoFile

\* the weight calibration cell, which may be run at any time and again
Calibrate ==
    /\ pc \in {"read", "subset", "sampled"}
    /\ gss' = CalibrateFrame(gss)
    /\ UNCHANGED <<pc, err, ncalls, dctVars, rsVars>>

\* the cell "subset = gss[variables]"
SelectSubset ==
    /\ pc \in {"read", "subset", "sampled"}
    /\ subset' = SelectColumns(gss, SubsetColumns)
    /\ pc' = IF pc = "read" THEN "subset" ELSE pc
    /\ UNCHANGED <<err, rng, tape, sample, runs, hdf5, dctVars, gssVars>>

\* the cell "!rm gss.hdf5; sample.to_hdf('gss.hdf5', 'gss')"
Persist ==
    /\ pc = "sampled"
    /\ hdf5' = [written |-> TRUE, table |-> sample]
    /\ UNCHANGED <<pc, err, subset, rng, tape, sample, runs, dctVars, gssVars>>

NextCalib == Calibrate \/ SelectSubset \/ ResampleByYear \/ Persist

SpecCalib == InitCalib /\ [][NextCalib]_vars

----------------------------------------------------------------------------
(* Claims about the dictionary parser, checked under SpecDct *)

\* C1: in every Dictionary ReadStataDct produces from a file with at least
\* two column lines, each ColumnSpec's normalized end equals the next one's
\* normalized start, and the last entry's raw end marker (variables.end) is
\* the sentinel 0, stored in colspecs as 0 - index_base.
C1_ContiguousOffsets ==
    (pc = "dct" /\ index_base = 1 /\ Len(colspecs) >= 2) =>
        /\ \A i \in 1..(Len(colspecs) - 1) : colspecs[i][2] = colspecs[i+1][1]
        /\ variables[Len(variables)].end = 0
        /\ colspecs[Len(colspecs)][2] = 0 - index_base

\* a three-column Dictionary at starts 1, 2, 3 has been produced
C1_Witness ==
    /\ pc = "dct"
    /\ index_base = 1
    /\ Len(colspecs) = 3
    /\ \A i \in 1..3 : variables[i].start = i

C4_TypeTokens ==
    line.marker =>
        LET known == StartsWith(line.vtype, <<"s","t","r">>)
                     \/ line.vtype \in {tok_byte, tok_int, tok_long,
                                        tok_float, tok_double, tok_numeric}
            last == var_info[Len(var_info)]
        IN  /\ known =>
                /\ err = "none"
                /\ var_info # <<>>
                /\ StartsWith(line.vtype, <<"s","t","r">>) => last.type = "str"
                /\ line.vtype \in {tok_byte, tok_int, tok_long} => last.type = "int"
                /\ line.vtype \in {tok_float, tok_double, tok_numeric} =>
                       last.type = "float"
            /\ ~known =>
                /\ pc = "failed"
                /\ err = "KeyError"
                /\ variables = <<>>
                /\ colspecs = <<>>

\* a parse that recorded a str12 column has then failed on the token 'short'
C4_Witness ==
    /\ pc = "failed"
    /\ err = "KeyError"
    /\ line.marker
    /\ line.vtype = tok_short
    /\ Len(var_info) = 1
    /\ var_info[1].type = "str"

----------------------------------------------------------------------------
(* Claims about the fixed-width reader, checked under SpecRead *)

\* the largest end offset the Dictionary's columns require of a line
\* (the last column's "to end of record" marker requires nothing)
RequiredLen == Max({colspecs[i][2] : i \in 1..Len(colspecs)} \cup {0})

\* the line holds no blank and reaches into the last column
LaidOutToMatch(l) ==
    /\ \A i \in 1..Len(l.text) : l.text[i] # " "
    /\ Len(l.text) >= variables[Len(variables)].start

\* the characters of column i's 1-based range in the line's text, the last
\* column's range running to the end of the line
ColumnChars(l, i) ==
    SubSeq(l.text, variables[i].start,
           IF i < Len(variables) THEN variables[i+1].start - 1 ELSE Len(l.text))

\* C2: when every line of the data file is laid out to match the
\* dictionary, the reader yields one row per line and every cell holds
\* exactly the characters of its column's range, the last column through
\* to the end of the line.
C2_RoundTrip ==
    (pc = "read" /\ \A k \in 1..Len(fwf) : LaidOutToMatch(fwf[k])) =>
        /\ Len(df) = Len(fwf)
        /\ \A k \in 1..Len(fwf) : \A i \in 1..Len(colspecs) :
                df[k][i] = ColumnChars(fwf[k], i)

\* C5: a data file holding a line shorter than the largest end offset the
\* Dictionary requires is never read into a frame: the read fails with
\* MalformedRecordError.
C5_ShortLineFails ==
    (\E k \in 1..Len(fwf) : Len(fwf[k].text) < RequiredLen) =>
        /\ pc = "failed"
        /\ err = "MalformedRecordError"

----------------------------------------------------------------------------
(* Claims about replace_invalid, checked under SpecClean *)

\* the codes the claim lists for each column
ListedCodes(col) ==
    CASE col = "realinc" -> {0}
      [] col = "educ" -> {98, 99}
      [] col = "age" -> {98, 99}
      [] col = "cohort" -> {9999}
      [] col = "adults" -> {9}
      [] OTHER -> {}

\* C6: a run of replace_invalid keeps the row count, turns a cell into the
\* missing marker exactly when it holds a listed code of its column, and
\* leaves every other cell (age 89 and every cell of another column
\* included) as it was.
C6_CleaningFrame ==
    [][ncalls' # ncalls =>
        /\ Len(gss') = Len(gss)
        /\ \A i \in 1..Len(gss) : \A col \in GssColumns :
              gss'[i][col] = IF gss[i][col] \in ListedCodes(col)
                             THEN NaN ELSE gss[i][col]]_vars

\* replace_invalid has run once on two rows and left an age of 89 and a
\* childs of 9 beside cells it replaced
C6_Witness ==
    /\ ncalls = 1
    /\ Len(gss) = 2
    /\ gss[1].age = 89 /\ gss[1].childs = 9 /\ gss[1].adults = NaN
    /\ gss[2].age = NaN /\ gss[2].educ = NaN /\ gss[2].realinc = 500

\* C7: running replace_invalid on a frame it has already cleaned changes
\* nothing.
C7_CleaningIdempotent ==
    [][(ncalls >= 1 /\ ncalls' # ncalls) => gss' = gss]_vars

\* replace_invalid has run twice on a frame that held codes
C7_Witness ==
    /\ ncalls = 2
    /\ Len(gss) = 2
    /\ gss[1].age = NaN /\ gss[1].cohort = NaN
    /\ gss[2].realinc = NaN /\ gss[2].educ = 12

----------------------------------------------------------------------------
(* Claims about the resampler, checked under SpecResample *)

\* the number of rows of a frame in stratum y
CountYear(tbl, y) == Cardinality({i \in 1..Len(tbl) : tbl[i].year = y})

\* every stratum of the frame holds a row of positive weight
AllStrataPositive(tbl) ==
    \A i \in 1..Len(tbl) :
        \E j \in 1..Len(tbl) : tbl[j].year = tbl[i].year /\ tbl[j].wtssall > 0

\* some stratum of the frame holds rows of weight zero only
SomeStratumZero(tbl) ==
    \E i \in 1..Len(tbl) :
        \A j \in 1..Len(tbl) : tbl[j].year = tbl[i].year => tbl[j].wtssall = 0

\* C8: whenever every stratum of the input has positive total weight, the
\* run returns a frame, whatever the draws: it has as many rows of each
\* stratum value as the input (so as many rows overall), and each of its
\* rows is a copy of an input row of the same stratum.
C8_RowCountPreserved ==
    \A k \in 1..Len(runs) :
        AllStrataPositive(runs[k].input) =>
            /\ runs[k].ok
            /\ Len(runs[k].output) = Len(runs[k].input)
            /\ \A y \in {1972, 1973} :
                  CountYear(runs[k].output, y) = CountYear(runs[k].input, y)
            /\ \A j \in 1..Len(runs[k].output) :
                  \E i \in 1..Len(runs[k].input) :
                      /\ runs[k].output[j] = runs[k].input[i]
                      /\ runs[k].input[i].year = runs[k].output[j].year

\* a run on one stratum of two different rows, of weights 1 and 2, has
\* returned the first row twice
C8_Witness ==
    /\ pc = "sampled"
    /\ Len(subset) = 2
    /\ subset[1].year = subset[2].year
    /\ subset[1].age # subset[2].age
    /\ subset[1].wtssall = 1 /\ subset[2].wtssall = 2
    /\ sample = <<subset[1], subset[1]>>

\* C9: a run on an input with a stratum of zero total weight raises
\* DegenerateStratumError and returns no frame.  (The strata are the year
\* values present in the input, so a stratum without rows does not arise.)
C9_DegenerateFails ==
    \A k \in 1..Len(runs) :
        SomeStratumZero(runs[k].input) =>
            /\ ~runs[k].ok
            /\ runs[k].output = <<>>
            /\ pc = "failed"
            /\ err = "DegenerateStratumError"
            /\ sample = <<>>

\* a run has failed on an input whose first stratum has positive weight
\* and whose second stratum has weight zero
C9_Witness ==
    /\ pc = "failed"
    /\ err = "DegenerateStratumError"
    /\ Len(subset) = 2
    /\ subset[1].year # subset[2].year
    /\ subset[1].wtssall = 2 /\ subset[2].wtssall = 0
    /\ Len(runs) = 1

\* C10: two runs with the same seed on the same input end the same way and
\* return the same frame, row for row.
C10_SeedDeterminism ==
    \A i \in 1..Len(runs) : \A j \in 1..Len(runs) :
        (runs[i].seed = runs[j].seed /\ runs[i].input = runs[j].input) =>
            /\ runs[i].ok = runs[j].ok
            /\ runs[i].output = runs[j].output

\* the cell has run twice with seed 19 on an input of two different rows
\* of one stratum, and the draws did not return the input as it was
C10_Witness ==
    /\ Len(runs) = 2
    /\ runs[1].seed = NotebookSeed /\ runs[2].seed = NotebookSeed
    /\ runs[1].ok /\ runs[2].ok
    /\ Len(subset) = 2
    /\ subset[1].year = subset[2].year
    /\ subset[1] # subset[2]
    /\ runs[2].output = <<subset[2], subset[1]>>

\* the rows of a frame that lie in stratum y, in order
RowsOfYear(tbl, y) == LET InYear(r) == r.year = y IN SelectSeq(tbl, InYear)

\* C11: when a run returns a frame, a stratum that holds a single row, of
\* positive weight, contributes exactly one row and that row is a copy of
\* the stratum's row, whatever the draws were.
C11_SingleRowStratum ==
    \A k \in 1..Len(runs) :
        runs[k].ok =>
            \A i \in 1..Len(runs[k].input) :
                LET r == runs[k].input[i]
                IN  (CountYear(runs[k].input, r.year) = 1 /\ r.wtssall > 0) =>
                        RowsOfYear(runs[k].output, r.year) = <<r>>

\* the cell has run twice on two strata of one row each, of weights 1 and 2
C11_Witness ==
    /\ Len(runs) = 2
    /\ runs[2].ok
    /\ Len(subset) = 2
    /\ subset[1].year # subset[2].year
    /\ subset[1].wtssall = 1 /\ subset[2].wtssall = 2
    /\ sample = subset

\* C12: the frame read holds exactly one row per line of the data file,
\* each row one cell per ColumnSpec in Dictionary order, under the
\* lowercased variable names of the dictionary, in order.
C12_OneRowPerLine ==
    pc = "read" =>
        /\ Len(df) = Len(fwf)
        /\ \A k \in 1..Len(df) : Len(df[k]) = Len(colspecs)
        /\ Len(names) = Len(variables)
        /\ \A i \in 1..Len(names) : names[i] = Lower(variables[i].name)

----------------------------------------------------------------------------
(* Further claims about the dictionary parser, checked under SpecDct *)

\* C13 as stated: every ColumnSpec of a Dictionary has start < end, and the
\* names of its ColumnSpecs are pairwise distinct.
C13_StartBelowEndUniqueNames ==
    pc = "dct" =>
        /\ \A i \in 1..Len(colspecs) : colspecs[i][1] < colspecs[i][2]
        /\ \A i \in 1..Len(names) : \A j \in 1..Len(names) :
              i # j => names[i] # names[j]

\* C13 as amended: a ColumnSpec other than the last has start < end exactly
\* when the next column line's start is larger than its own; the last
\* ColumnSpec's end is the marker 0 - index_base, below its start; the
\* names are the file's names lowercased, in order, so two of them are
\* equal exactly when the file's names are equal ignoring case.
C13_OrderedStartsDistinctNames ==
    /\ (line.marker /\ err = "none") =>
          var_info[Len(var_info)].name = Lower(line.name)
    /\ pc = "dct" =>
          LET n == Len(colspecs)
          IN  /\ n = Len(var_info) /\ n >= 1
              /\ \A i \in 1..(n - 1) :
                    colspecs[i][1] < colspecs[i][2]
                        <=> var_info[i].start < var_info[i+1].start
              /\ colspecs[n][2] = 0 - index_base
              /\ colspecs[n][2] < colspecs[n][1]
              /\ \A i \in 1..n : names[i] = var_info[i].name
              /\ \A i \in 1..n : \A j \in 1..n :
                    names[i] = names[j] <=> var_info[i].name = var_info[j].name

\* a Dictionary of three columns at starts 1, 2, 3 whose file named the
\* first ID and the others age
C13_Witness ==
    /\ pc = "dct"
    /\ index_base = 1
    /\ colspecs = <<<<0, 1>>, <<1, 2>>, <<2, -1>>>>
    /\ names = <<<<"i","d">>, <<"a","g","e">>, <<"a","g","e">>>>
    /\ line.name = <<"a","g","e">>

\* C14: a line without the marker adds nothing and a line with it adds one
\* ColumnSpec at the end, so the Dictionary holds one ColumnSpec per column
\* line in file order; this for every file: the parse of a file ends in
\* failure only on a column line, and a file without column lines gives
\* the empty Dictionary.
C14_OneSpecPerColumnLine ==
    /\ (line.marker /\ err = "none") =>
          /\ var_info # <<>>
          /\ var_info[Len(var_info)].start = line.start
          /\ var_info[Len(var_info)].name = Lower(line.name)
    /\ pc = "dct" =>
          /\ Len(colspecs) = Len(var_info)
          /\ \A i \in 1..Len(colspecs) :
                /\ colspecs[i][1] = var_info[i].start - index_base
                /\ names[i] = var_info[i].name
    /\ pc = "failed" => line.marker

----------------------------------------------------------------------------
(* Further claims about the resampler, checked under SpecResample *)

\* the position of the first row of stratum y in a frame
FirstIndex(tbl, y) ==
    CHOOSE i \in 1..Len(tbl) :
        tbl[i].year = y /\ \A j \in 1..(i - 1) : tbl[j].year # y

----------------------------------------------------------------------------
(* Claim about the calibration cell, checked under SpecCalib *)

\* C16: a step that changes the frame gss (the calibration cell) keeps its
\* rows and every column but wtsample, wtssall included, and changes nothing
\* else; a selected subset is the frame's three columns without wtsample;
\* and every run of the resampling cell, before or after calibration, has
\* the same input and returns the same sample, which is what gss.hdf5 holds
\* once written.
C16_CalibrationWritesOnlyWtsample ==
    /\ [][gss' # gss =>
             /\ Len(gss') = Len(gss)
             /\ \A i \in 1..Len(gss) :
                   /\ DOMAIN gss'[i] = (DOMAIN gss[i]) \cup {"wtsample"}
                   /\ \A f \in (DOMAIN gss[i]) \ {"wtsample"} :
                         gss'[i][f] = gss[i][f]
             /\ UNCHANGED <<pc, err, ncalls, dctVars, rsVars>>]_vars
    /\ [](pc \in {"subset", "sampled"} =>
             /\ subset = SelectColumns(gss, SubsetColumns)
             /\ \A i \in 1..Len(subset) : "wtsample" \notin DOMAIN subset[i])
    /\ [](\A j \in 1..Len(runs) : \A k \in 1..Len(runs) :
             /\ runs[j].input = runs[k].input
             /\ runs[j].ok /\ runs[k].ok
             /\ runs[j].output = runs[k].output
             /\ hdf5.written => hdf5.table = runs[k].output)

\* the resampling cell has run before and after the calibration, with a
\* row of sex 1 and a row of sex 2 in one stratum, and the sample of the
\* run after the calibration is in gss.hdf5
C16_Witness ==
    /\ Len(runs) = 2
    /\ ~runs[1].calibrated /\ runs[2].calibrated
    /\ Len(gss) = 2
    /\ gss[1].year = gss[2].year
    /\ gss[1].sex = 1 /\ gss[2].sex = 2
    /\ gss[1].wtsample = 2290 /\ gss[2].wtsample = 1000
    /\ hdf5.written /\ hdf5.table = runs[2].output
    /\ Len(hdf5.table) = 2

====
